---- MODULE Spec2Model ----
(***************************************************************************)
(* Pre-connect audio relay of src/preconnect.py.                           *)
(*                                                                         *)
(* register_pre_connect_handler installs a byte-stream handler that starts *)
(* one asyncio task running handle_pre_connect per incoming stream.  A     *)
(* task runs without interruption between two awaits; its only await is    *)
(* the `async for chunk in reader` of line 38, so each action below is the *)
(* code executed from one resumption of the task to its next suspension.   *)
(*                                                                         *)
(* Bytes of a stream are numbered 1, 2, ... in the order the client sent   *)
(* them; a chunk and a frame are sequences of such numbers.  Frames in the *)
(* input audio buffer carry the relay that appended them (src), which is   *)
(* bookkeeping of the model, not data of the program.                      *)
(***************************************************************************)
EXTENDS Integers, Sequences, FiniteSets, TLC

\* ----------------------------------------------------------------- bounds
MaxChunks == 3      \* chunks the clients send, all streams together
MaxChunkLen == 4    \* bytes in the longest chunk
MaxEvents == 4      \* job requests, attribute changes and transcript ids

\* Two pre-connect streams: the handler shares nothing between its tasks but
\* the session's input audio buffer, and two tasks show every interleaving
\* of appends to it
Relays == {1, 2}

\* a chunk is a single byte or a long one, so that one write() yields no
\* frame, one frame or several, with and without carry-over
ChunkLens == {1, MaxChunkLen}

\* ------------------------------------------------- stream metadata (28-32)
Missing == "<missing>"

\* values reader.info.attributes may hold for "sampleRate" / "channels"
SampleRateAttrs == {Missing, "abc", "10"}
ChannelAttrs == {Missing, "x", "1", "2"}

\* int(s) of lines 28-29: the digits of a decimal string, ValueError otherwise
IntValue == [s \in {"1", "2", "10"} |->
               CASE s = "1" -> 1 [] s = "2" -> 2 [] s = "10" -> 10]

IsNumeric(s) == s \in DOMAIN IntValue

\* lines 27-32: the try block succeeds iff both keys exist and both parse
ParamsOk(attributes) ==
    /\ attributes.sampleRate # Missing
    /\ attributes.channels # Missing
    /\ IsNumeric(attributes.sampleRate)
    /\ IsNumeric(attributes.channels)

\* --------------------------------------------------- reframer (spec 4.1)
SampleWidth == 2

SamplesPerChannel(sample_rate) == sample_rate \div 10

BytesPerFrame(sample_rate, num_channels) ==
    SamplesPerChannel(sample_rate) * num_channels * SampleWidth

\* variant of NewAudioByteStream: the channel count is not passed on
NewAudioByteStream_Mono(sample_rate, num_channels) ==
    [bytes_per_frame |-> BytesPerFrame(sample_rate, 1),
     buf |-> <<>>]

\* AudioByteStream(sample_rate=..., num_channels=...) of line 34
NewAudioByteStream(sample_rate, num_channels) ==
    [bytes_per_frame |-> BytesPerFrame(sample_rate, num_channels),
     buf |-> <<>>]

NoStream == [bytes_per_frame |-> 0, buf |-> <<>>]

RECURSIVE FullFrames(_, _)
FullFrames(buf, F) ==
    IF Len(buf) >= F
    THEN <<SubSeq(buf, 1, F)>> \o FullFrames(SubSeq(buf, F + 1, Len(buf)), F)
    ELSE <<>>

CarryOver(buf, F) == SubSeq(buf, Len(buf) - (Len(buf) % F) + 1, Len(buf))

\* write(chunk): the complete frames of carry-over + chunk, rest stays buffered
WriteFrames(as, chunk) == FullFrames(as.buf \o chunk, as.bytes_per_frame)

WriteState(as, chunk) ==
    [as EXCEPT !.buf = CarryOver(as.buf \o chunk, as.bytes_per_frame)]

\* flush(): the carry-over as one short frame, nothing when it is empty
FlushFrames(as) == IF as.buf = <<>> THEN <<>> ELSE <<as.buf>>

\* variant of FlushState: flush() leaves the carry-over in place
FlushState_Keep(as) == as

FlushState(as) == [as EXCEPT !.buf = <<>>]


\* ------------------------------------------------------------------ state
VARIABLES
    sessions,      \* model.sessions: the sessions of the realtime model
    reader,        \* per relay, the ByteStreamReader handed to the handler
    pc,            \* per relay, where its handle_pre_connect task stands
    audio_stream,  \* per relay, the AudioByteStream of line 34
    log,           \* per relay, the logger.error messages it wrote
    outcome,       \* per relay, how its task ended
    hist           \* per relay, record of what the handler did (bookkeeping)

\* state of src/agent.py
VARIABLES
    sandbox,             \* line 26: LIVEKIT_SANDBOX_ID, <<>> when unset
    job_requests,        \* the job requests handled, with the calls made on each
    remote_present,      \* ctx.room.remote_participants is not empty
    attributes,          \* participant.attributes
    last_transcript_id,  \* line 192, 0 for None
    uuids,               \* uuid4 values drawn so far (the n-th one is n)
    transcriptions,      \* the send_transcription tasks created, in order
    session_calls,       \* the calls made on model.sessions[0], in order
    events               \* the attribute changes handled (bookkeeping)

relayVars == <<reader, pc, audio_stream, log, outcome, hist>>

agentVars == <<sandbox, job_requests, remote_present, attributes,
               last_transcript_id, uuids, transcriptions, events>>

vars == <<sessions, reader, pc, audio_stream, log, outcome, hist,
          sandbox, job_requests, remote_present, attributes,
          last_transcript_id, uuids, transcriptions, session_calls, events>>

NewSession == [input_audio_buffer |-> <<>>]

NoReader == [attributes |-> [sampleRate |-> Missing, channels |-> Missing],
             queue |-> <<>>, state |-> "none", sent |-> 0, chunks |-> 0]

\* chunks, received: chunks and bytes the loop of line 38 has read;
\* written, flushOut: the frames write() and flush() returned;
\* flush, commit, response_create: calls the handler made of flush(), of the
\* buffer's commit() and of the session's response.create();
\* failed: chunks whose processing raised; exit: how the handler ended
NoHist == [chunks |-> 0, received |-> 0, written |-> <<>>, flushOut |-> <<>>,
           flush |-> 0, commit |-> 0, response_create |-> 0,
           failed |-> 0, exit |-> "none"]

None == <<>>

NoAttributes == [instructions |-> Missing, temperature |-> Missing]

\* the worker before any job request, with the sandbox id sb
InitWith(sb) ==
    /\ sessions = <<>>
    /\ reader = [r \in Relays |-> NoReader]
    /\ pc = [r \in Relays |-> "idle"]
    /\ audio_stream = [r \in Relays |-> NoStream]
    /\ log = [r \in Relays |-> <<>>]
    /\ outcome = [r \in Relays |-> "none"]
    /\ hist = [r \in Relays |-> NoHist]
    /\ sandbox = sb
    /\ job_requests = <<>>
    /\ remote_present = TRUE
    /\ attributes = NoAttributes
    /\ last_transcript_id = 0
    /\ uuids = 0
    /\ transcriptions = <<>>
    /\ session_calls = <<>>
    /\ events = <<>>

Init == InitWith(None)

\* ----------------------------------------------------------- frame sink
Frame(r, data) == [src |-> r, data |-> data]

TagFrames(r, frames) == [i \in 1..Len(frames) |-> Frame(r, frames[i])]

\* variant of SinkAppend: the frame is put in front of the buffer
SinkAppend_Front(buffer, frame) == <<frame>> \o buffer

\* input_buffer.append(frame) of lines 41 and 47
SinkAppend(buffer, frame) == Append(buffer, frame)

\* variant of AppendAll: the loop stops after its first frame
AppendAll_FirstOnly(buffer, frames) ==
    IF frames = <<>> THEN buffer ELSE Append(buffer, Head(frames))

\* the for loops of lines 40-41 and 46-47: the frames in order
RECURSIVE AppendAll(_, _)
AppendAll(buffer, frames) ==
    IF frames = <<>> THEN buffer
    ELSE AppendAll(SinkAppend(buffer, Head(frames)), Tail(frames))

\* lines 25 and 35: the input audio buffer of sessions[0], after the appends
WithAppended(frames) ==
    <<[sessions[1] EXCEPT
         !.input_audio_buffer = AppendAll(@, frames)]>>

\* -------------------------------------------------- glue and environment
\* agent.py 105-115: assistant.start(ctx.room) creates model.sessions[0],
\* then the opening user message and the first response are requested
AssistantStart ==
    /\ sessions = <<>>
    /\ sessions' = <<NewSession>>
    /\ session_calls' = <<"item.create:begin", "response.create">>
    /\ UNCHANGED relayVars
    /\ UNCHANGED agentVars

\* line 18: a byte stream on the pre-connect topic arrives and the registered
\* lambda creates a task for it
StreamOpened(r) ==
    /\ pc[r] = "idle"
    /\ \A q \in Relays : q < r => pc[q] # "idle"
    /\ reader' = [reader EXCEPT ![r].state = "open"]
    /\ pc' = [pc EXCEPT ![r] = "scheduled"]
    /\ UNCHANGED <<sessions, audio_stream, log, outcome, hist>>
    /\ UNCHANGED <<agentVars, session_calls>>

Bytes(from, n) == [i \in 1..n |-> from + i]

RECURSIVE ChunksSent(_)
ChunksSent(rs) ==
    IF rs = {} THEN 0
    ELSE LET r == CHOOSE x \in rs : TRUE
         IN reader[r].chunks + ChunksSent(rs \ {r})

\* the client sends the next chunk of the stream; the reader queues it
ClientSend(r, n) ==
    /\ pc[r] \in {"scheduled", "reading"}
    /\ reader[r].state = "open"
    /\ ChunksSent(Relays) < MaxChunks
    /\ reader' = [reader EXCEPT ![r].queue = Append(@, Bytes(reader[r].sent, n)),
                                ![r].sent = @ + n,
                                ![r].chunks = @ + 1]
    /\ UNCHANGED <<sessions, pc, audio_stream, log, outcome, hist>>
    /\ UNCHANGED <<agentVars, session_calls>>

\* the client closes the stream (how = "eos") or the transport fails ("error")
ClientClose(r, how) ==
    /\ pc[r] \in {"scheduled", "reading"}
    /\ reader[r].state = "open"
    /\ reader' = [reader EXCEPT ![r].state = how]
    /\ UNCHANGED <<sessions, pc, audio_stream, log, outcome, hist>>
    /\ UNCHANGED <<agentVars, session_calls>>

\* ------------------------------------------------- handle_pre_connect
\* lines 22-23: no session yet, the handler returns at once
StartNoSession(r) ==
    /\ pc' = [pc EXCEPT ![r] = "done"]
    /\ outcome' = [outcome EXCEPT ![r] = "returned"]
    /\ hist' = [hist EXCEPT ![r].exit = "no_session"]
    /\ UNCHANGED <<audio_stream, log>>

\* lines 34-38: the reframer is built and the task waits for the first chunk
StartRelay(r, sample_rate, num_channels) ==
    /\ audio_stream' = [audio_stream EXCEPT ![r] =
                          NewAudioByteStream(sample_rate, num_channels)]
    /\ pc' = [pc EXCEPT ![r] = "reading"]
    /\ UNCHANGED <<outcome, hist>>

\* variant of StartBadParams: logs, then carries on with default parameters
StartBadParams_Fallback(r) ==
    /\ log' = [log EXCEPT ![r] = Append(@, "Missing or invalid audio stream parameters")]
    /\ audio_stream' = [audio_stream EXCEPT ![r] = [bytes_per_frame |-> 2, buf |-> <<>>]]
    /\ pc' = [pc EXCEPT ![r] = "reading"]
    /\ UNCHANGED <<outcome, hist>>

\* lines 30-32: the parameters are missing or invalid: log and return
StartBadParams(r) ==
    /\ log' = [log EXCEPT ![r] = Append(@, "Missing or invalid audio stream parameters")]
    /\ pc' = [pc EXCEPT ![r] = "done"]
    /\ outcome' = [outcome EXCEPT ![r] = "returned"]
    /\ hist' = [hist EXCEPT ![r].exit = "bad_params"]
    /\ UNCHANGED audio_stream

\* lines 21-35, from the start of the task to its first await.  sr and ch
\* are what reader.info.attributes holds for "sampleRate" and "channels"
HandlerStart(r, sr, ch) ==
    /\ pc[r] = "scheduled"
    /\ reader' = [reader EXCEPT ![r].attributes = [sampleRate |-> sr, channels |-> ch]]
    /\ IF sessions = <<>>
       THEN StartNoSession(r)
       ELSE IF ~ParamsOk(reader'[r].attributes)
       THEN StartBadParams(r)
       ELSE StartRelay(r, IntValue[sr], IntValue[ch]) /\ UNCHANGED log
    /\ UNCHANGED sessions
    /\ UNCHANGED <<agentVars, session_calls>>

\* variant of Finalize: flush() sits in an else branch, so it is skipped
\* when line 42 caught an error
Finalize_SkipOnError(r, as, h, before, why, reject) ==
    LET skip == why \in {"stream_error", "chunk_error"}
        out == IF skip THEN <<>> ELSE FlushFrames(as)
        ok == out = <<>> \/ ~reject
    IN /\ audio_stream' = [audio_stream EXCEPT ![r] = IF skip THEN as ELSE FlushState(as)]
       /\ sessions' = <<[sessions[1] EXCEPT !.input_audio_buffer =
                           @ \o [i \in 1..Len(before \o (IF ok THEN out ELSE <<>>)) |->
                                   [src |-> r, data |-> (before \o (IF ok THEN out ELSE <<>>))[i]]]]>>
       /\ pc' = [pc EXCEPT ![r] = "done"]
       /\ outcome' = [outcome EXCEPT ![r] =
                        IF ~ok THEN "raised"
                        ELSE IF why = "cancel" THEN "cancelled" ELSE "returned"]
       /\ hist' = [hist EXCEPT ![r] = [h EXCEPT !.flush = IF skip THEN @ ELSE @ + 1,
                                                !.flushOut = out,
                                                !.exit = why]]

\* variant of Finalize: a cancellation ends the task before flush()
Finalize_SkipOnCancel(r, as, h, before, why, reject) ==
    LET skip == why = "cancel"
        out == IF skip THEN <<>> ELSE FlushFrames(as)
        ok == out = <<>> \/ ~reject
    IN /\ audio_stream' = [audio_stream EXCEPT ![r] = IF skip THEN as ELSE FlushState(as)]
       /\ sessions' = <<[sessions[1] EXCEPT !.input_audio_buffer =
                           @ \o [i \in 1..Len(before \o (IF ok THEN out ELSE <<>>)) |->
                                   [src |-> r, data |-> (before \o (IF ok THEN out ELSE <<>>))[i]]]]>>
       /\ pc' = [pc EXCEPT ![r] = "done"]
       /\ outcome' = [outcome EXCEPT ![r] =
                        IF ~ok THEN "raised"
                        ELSE IF why = "cancel" THEN "cancelled" ELSE "returned"]
       /\ hist' = [hist EXCEPT ![r] = [h EXCEPT !.flush = IF skip THEN @ ELSE @ + 1,
                                                !.flushOut = out,
                                                !.exit = why]]

\* lines 44-47, the finally block: flush() and the append of its output.
\* as and h are the reframer and the record as the loop left them, before
\* the frames of the interrupted loop body the sink accepted, why the exit
\* path, reject whether the sink raises on the flush frame
Finalize(r, as, h, before, why, reject) ==
    LET out == FlushFrames(as)
        ok == out = <<>> \/ ~reject
    IN /\ audio_stream' = [audio_stream EXCEPT ![r] = FlushState(as)]
       /\ sessions' = WithAppended(TagFrames(r, before \o (IF ok THEN out ELSE <<>>)))
       /\ pc' = [pc EXCEPT ![r] = "done"]
       /\ outcome' = [outcome EXCEPT ![r] =
                        IF ~ok THEN "raised"
                        ELSE IF why = "cancel" THEN "cancelled" ELSE "returned"]
       /\ hist' = [hist EXCEPT ![r] = [h EXCEPT !.flush = @ + 1,
                                                !.flushOut = out,
                                                !.exit = why]]

\* lines 38-43: the reader yields the next chunk and the loop body runs.
\* reject = 0: the sink accepts every frame and the task waits for the next
\* chunk; reject = k: append raises on the k-th frame of this chunk, which
\* line 42 catches outside the loop, so the finally block follows at once
ReadChunk(r, reject, rejectFlush) ==
    /\ pc[r] = "reading"
    /\ reader[r].queue # <<>>
    /\ LET chunk == Head(reader[r].queue)
           frames == WriteFrames(audio_stream[r], chunk)
           as == WriteState(audio_stream[r], chunk)
           h == [hist[r] EXCEPT !.chunks = @ + 1,
                                !.received = @ + Len(chunk),
                                !.written = @ \o frames]
       IN /\ reject \in 0..Len(frames)
          /\ reader' = [reader EXCEPT ![r].queue = Tail(@)]
          /\ IF reject = 0
             THEN /\ ~rejectFlush
                  /\ sessions' = WithAppended(TagFrames(r, frames))
                  /\ audio_stream' = [audio_stream EXCEPT ![r] = as]
                  /\ hist' = [hist EXCEPT ![r] = h]
                  /\ UNCHANGED <<pc, log, outcome>>
             ELSE /\ log' = [log EXCEPT ![r] = Append(@, "Error processing audio chunk")]
                  /\ Finalize(r, as, [h EXCEPT !.failed = @ + 1],
                              SubSeq(frames, 1, reject - 1), "chunk_error", rejectFlush)
    /\ UNCHANGED <<agentVars, session_calls>>

\* line 38: the reader is exhausted, the loop ends and the finally block runs
EndOfStream(r, rejectFlush) ==
    /\ pc[r] = "reading"
    /\ reader[r].queue = <<>>
    /\ reader[r].state = "eos"
    /\ Finalize(r, audio_stream[r], hist[r], <<>>, "eos", rejectFlush)
    /\ UNCHANGED <<reader, log>>
    /\ UNCHANGED <<agentVars, session_calls>>

\* lines 38, 42-43: the reader raises, the error is logged, finally runs
StreamError(r, rejectFlush) ==
    /\ pc[r] = "reading"
    /\ reader[r].queue = <<>>
    /\ reader[r].state = "error"
    /\ log' = [log EXCEPT ![r] = Append(@, "Error processing audio chunk")]
    /\ Finalize(r, audio_stream[r], hist[r], <<>>, "stream_error", rejectFlush)
    /\ UNCHANGED reader
    /\ UNCHANGED <<agentVars, session_calls>>

\* variant of Cancel: the append is a suspension point too, so a cancellation
\* can land after write() of the next chunk and before its frames are appended
Cancel_MidChunk(r, rejectFlush) ==
    /\ pc[r] \in {"scheduled", "reading"}
    /\ IF pc[r] = "scheduled"
       THEN /\ ~rejectFlush
            /\ pc' = [pc EXCEPT ![r] = "done"]
            /\ outcome' = [outcome EXCEPT ![r] = "cancelled"]
            /\ hist' = [hist EXCEPT ![r].exit = "never_ran"]
            /\ UNCHANGED <<sessions, audio_stream, reader>>
       ELSE IF reader[r].queue = <<>>
       THEN /\ Finalize(r, audio_stream[r], hist[r], <<>>, "cancel", rejectFlush)
            /\ UNCHANGED reader
       ELSE LET chunk == Head(reader[r].queue)
            IN /\ reader' = [reader EXCEPT ![r].queue = Tail(@)]
               /\ Finalize(r, WriteState(audio_stream[r], chunk),
                           [hist[r] EXCEPT !.chunks = @ + 1,
                                           !.received = @ + Len(chunk),
                                           !.written = @ \o WriteFrames(audio_stream[r], chunk)],
                           <<>>, "cancel", rejectFlush)
    /\ UNCHANGED log
    /\ UNCHANGED <<agentVars, session_calls>>

\* the task is cancelled.  Before its first step nothing of the handler
\* runs; at the await of line 38 CancelledError is no Exception, so line 42
\* lets it pass and only the finally block runs
Cancel(r, rejectFlush) ==
    /\ pc[r] \in {"scheduled", "reading"}
    /\ IF pc[r] = "scheduled"
       THEN /\ ~rejectFlush
            /\ pc' = [pc EXCEPT ![r] = "done"]
            /\ outcome' = [outcome EXCEPT ![r] = "cancelled"]
            /\ hist' = [hist EXCEPT ![r].exit = "never_ran"]
            /\ UNCHANGED <<sessions, audio_stream>>
       ELSE Finalize(r, audio_stream[r], hist[r], <<>>, "cancel", rejectFlush)
    /\ UNCHANGED <<reader, log>>
    /\ UNCHANGED <<agentVars, session_calls>>

\* ---------------------------------------------------------- src/agent.py
\* events that draw on MaxEvents counted so far
EventsSoFar == Len(job_requests) + Len(events) + uuids

\* lines 148-165: send_transcription(ctx, participant, track_sid, id, text,
\* is_final) as handed to asyncio.create_task
Segment(who, id, text, final) ==
    [who |-> who, id |-> id, text |-> text, final |-> final]

\* a participant joins or leaves the room
ParticipantChange ==
    /\ sessions # <<>>
    /\ remote_present' = ~remote_present
    /\ UNCHANGED <<sessions, relayVars, session_calls, sandbox, job_requests,
                   attributes, last_transcript_id, uuids, transcriptions, events>>

\* variant of StartedSegments: the previous placeholder is left open
StartedSegments_NoClose(last, new_id) ==
    <<Segment("remote", new_id, "...", FALSE)>>

\* lines 210-223: the segments on_input_speech_started schedules: an empty
\* final segment for the placeholder still open, then the new placeholder
\* (the three dots stand for the ellipsis character of line 221)
StartedSegments(last, new_id) ==
    (IF last # 0 THEN <<Segment("remote", last, "", TRUE)>> ELSE <<>>)
        \o <<Segment("remote", new_id, "...", FALSE)>>

\* lines 195-223
OnInputSpeechStarted ==
    /\ sessions # <<>>
    /\ EventsSoFar < MaxEvents
    /\ IF ~remote_present
       THEN UNCHANGED <<last_transcript_id, uuids, transcriptions>>
       ELSE /\ uuids' = uuids + 1
            /\ transcriptions' = transcriptions \o
                                    StartedSegments(last_transcript_id, uuids + 1)
            /\ last_transcript_id' = uuids + 1
    /\ UNCHANGED <<sessions, relayVars, session_calls, sandbox, job_requests,
                   remote_present, attributes, events>>

\* lines 230-248 and 255-279: the two handlers differ in the text only
CloseTranscript(text) ==
    /\ sessions # <<>>
    /\ IF last_transcript_id # 0 /\ remote_present
       THEN /\ transcriptions' = Append(transcriptions,
                                        Segment("remote", last_transcript_id, text, TRUE))
            /\ last_transcript_id' = 0
       ELSE UNCHANGED <<last_transcript_id, transcriptions>>
    /\ UNCHANGED <<sessions, relayVars, session_calls, sandbox, job_requests,
                   remote_present, attributes, uuids, events>>

\* lines 225-248
OnInputSpeechTranscriptionCompleted == CloseTranscript("")

\* lines 250-279
OnInputSpeechTranscriptionFailed == CloseTranscript("Transcription failed")

\* lines 167-190: a response that ended incomplete or failed is reported in
\* a final segment of the local participant under a fresh id
OnResponseDone(status) ==
    /\ sessions # <<>>
    /\ EventsSoFar < MaxEvents
    /\ IF status \in {"incomplete", "failed"}
       THEN /\ uuids' = uuids + 1
            /\ transcriptions' = Append(transcriptions,
                   Segment("local", uuids + 1, "response " \o status, TRUE))
       ELSE UNCHANGED <<uuids, transcriptions>>
    /\ UNCHANGED <<sessions, relayVars, session_calls, sandbox, job_requests,
                   remote_present, attributes, last_transcript_id, events>>

\* values a participant attribute may be set to
InstructionAttrs == {Missing, "be brief"}
TemperatureAttrs == {Missing, "0.5", "hot"}

\* line 73: float(s) succeeds on these strings, ValueError on the others
FloatStrings == {"0.5"}

\* lines 68-78: parse_session_config(data) returns; only float() can raise,
\* and the default 0.8 is used when the key is absent
ParseOk(data) ==
    data.temperature = Missing \/ data.temperature \in FloatStrings

\* line 122: {**participant.attributes, **changed_attributes}
Merge(attrs, changed) ==
    [k \in DOMAIN attrs |-> IF changed[k] # Missing THEN changed[k] ELSE attrs[k]]

\* variant of AttributeCalls: the message is created on every change
AttributeCalls_Always(changed) ==
    <<"session_update", "item.create:instructions_changed", "response.create">>

\* lines 125-146: the calls on model.sessions[0] once the config is parsed
AttributeCalls(changed) ==
    <<"session_update">>
        \o (IF changed.instructions # Missing
            THEN <<"item.create:instructions_changed">> ELSE <<>>)
        \o <<"response.create">>

\* lines 117-146: participant_attributes_changed.  A ValueError of line 73
\* leaves the handler at line 121, before any call on the session
OnAttributesChanged(changed) ==
    /\ sessions # <<>>
    /\ EventsSoFar < MaxEvents
    /\ changed # NoAttributes
    /\ LET merged == Merge(attributes, changed)
       IN /\ attributes' = merged
          /\ events' = Append(events, [changed |-> changed, merged |-> merged])
          /\ session_calls' = IF ParseOk(merged)
                              THEN session_calls \o AttributeCalls(changed)
                              ELSE session_calls
    /\ UNCHANGED <<sessions, relayVars, sandbox, job_requests, remote_present,
                   last_transcript_id, uuids, transcriptions>>

\* strings of the job request are sequences of characters.  The sandbox ids
\* "a-b", "b", "b-" and "", and the room names "sbx-b", "sbx-bz", "sbx-a",
\* "sbx-" and "b"
SandboxIds == {<<"a", "-", "b">>, <<"b">>, <<"b", "-">>, <<>>}

RoomNames == {<<"s", "b", "x", "-", "b">>, <<"s", "b", "x", "-", "b", "z">>,
              <<"s", "b", "x", "-", "a">>, <<"s", "b", "x", "-">>, <<"b">>}

\* os.getenv of line 26: None, or the id wrapped in a one-element sequence
Sandboxes == {None} \cup {<<id>> : id \in SandboxIds}

\* variant of LastSegment: split('-')[0]
LastSegment_First(str) ==
    IF \E i \in 1..Len(str) : str[i] = "-"
    THEN SubSeq(str, 1, (CHOOSE i \in 1..Len(str) :
                            str[i] = "-" /\ \A j \in 1..(i - 1) : str[j] # "-") - 1)
    ELSE str

\* line 36: str.split('-')[-1]
RECURSIVE LastSegment(_)
LastSegment(str) ==
    IF \E i \in 1..Len(str) : str[i] = "-"
    THEN LET first == CHOOSE i \in 1..Len(str) :
                          str[i] = "-" /\ \A j \in 1..(i - 1) : str[j] # "-"
         IN LastSegment(SubSeq(str, first + 1, Len(str)))
    ELSE str

\* line 37: str.startswith(prefix)
StartsWith(str, prefix) ==
    Len(prefix) <= Len(str) /\ SubSeq(str, 1, Len(prefix)) = prefix

\* lines 32-40: the calls request() makes on the job request
Resolve(sb, room) ==
    IF sb # None
    THEN IF StartsWith(room, <<"s", "b", "x", "-">> \o LastSegment(sb[1]))
         THEN <<"accept">>
         ELSE <<"reject">>
    ELSE <<"accept">>

\* lines 32-40 and 283: the worker hands a job request to request()
JobRequest(room) ==
    /\ EventsSoFar < MaxEvents
    /\ job_requests' = Append(job_requests,
                              [room |-> room, calls |-> Resolve(sandbox, room)])
    /\ UNCHANGED <<sessions, relayVars, session_calls, sandbox, remote_present,
                   attributes, last_transcript_id, uuids, transcriptions, events>>

Next ==
    \/ AssistantStart
    \/ \E r \in Relays : StreamOpened(r)
    \/ \E r \in Relays, n \in ChunkLens : ClientSend(r, n)
    \/ \E r \in Relays, how \in {"eos", "error"} : ClientClose(r, how)
    \/ \E r \in Relays, sr \in SampleRateAttrs, ch \in ChannelAttrs : HandlerStart(r, sr, ch)
    \/ \E r \in Relays, k \in 0..MaxChunkLen, b \in BOOLEAN : ReadChunk(r, k, b)
    \/ \E r \in Relays, b \in BOOLEAN : EndOfStream(r, b)
    \/ \E r \in Relays, b \in BOOLEAN : StreamError(r, b)
    \/ \E r \in Relays, b \in BOOLEAN : Cancel(r, b)

Spec == Init /\ [][Next]_vars

\* the glue of src/agent.py on its own: one job, no pre-connect stream
AgentNext ==
    \/ AssistantStart
    \/ ParticipantChange
    \/ OnInputSpeechStarted
    \/ OnInputSpeechTranscriptionCompleted
    \/ OnInputSpeechTranscriptionFailed
    \/ \E status \in {"completed", "incomplete", "failed"} : OnResponseDone(status)
    \/ \E i \in InstructionAttrs, t \in TemperatureAttrs :
           OnAttributesChanged([instructions |-> i, temperature |-> t])
    \/ \E room \in RoomNames : JobRequest(room)

AgentInit == \E sb \in Sandboxes : InitWith(sb)

SpecAgent == AgentInit /\ [][AgentNext]_vars

TypeOK ==
    /\ Len(sessions) \in {0, 1}
    /\ \A r \in Relays :
        /\ pc[r] \in {"idle", "scheduled", "reading", "done"}
        /\ outcome[r] \in {"none", "returned", "raised", "cancelled"}
        /\ hist[r].flush \in {0, 1}

\* ------------------------------------------------ reading the state
\* the session's input audio buffer (empty while there is no session)
Buffer == IF sessions = <<>> THEN <<>> ELSE sessions[1].input_audio_buffer

\* the frames relay r appended, in buffer order
AppendedBy(r) ==
    LET mine == SelectSeq(Buffer, LAMBDA f : f.src = r)
    IN [i \in 1..Len(mine) |-> mine[i].data]

RECURSIVE Flatten(_)
Flatten(frames) ==
    IF frames = <<>> THEN <<>> ELSE Head(frames) \o Flatten(Tail(frames))

Increasing(bytes) == \A i \in 1..Len(bytes) - 1 : bytes[i] < bytes[i + 1]

InSeq(x, seq) == \E i \in 1..Len(seq) : seq[i] = x

LoopExits == {"eos", "stream_error", "chunk_error", "cancel"}

\* relay r started consuming its stream and has ended
Consumed(r) == pc[r] = "done" /\ hist[r].exit \in LoopExits

\* relay r got as far as building its reframer
Relaying(r) == pc[r] = "reading" \/ Consumed(r)

FrameSize(r) ==
    BytesPerFrame(IntValue[reader[r].attributes.sampleRate],
                  IntValue[reader[r].attributes.channels])

\* --------------------------------------------------------------- claims

\* C1: every relay that consumed its stream has invoked commit() on the
\* input audio buffer exactly once by the time it ends (and only after the
\* flush output was appended).  handle_pre_connect never calls commit().
C1_CommitExactlyOnce ==
    \A r \in Relays : Consumed(r) => hist[r].commit = 1

C3_FrameOrder ==
    \A r \in Relays :
        /\ Increasing(Flatten(AppendedBy(r)))
        /\ \A i \in 1..Len(AppendedBy(r)) :
               InSeq(AppendedBy(r)[i], hist[r].flushOut) => i = Len(AppendedBy(r))

C3_Witness ==
    \E r \in Relays :
        /\ Consumed(r)
        /\ Len(AppendedBy(r)) >= 3
        /\ InSeq(AppendedBy(r)[Len(AppendedBy(r))], hist[r].flushOut)
        /\ \E q \in Relays : q # r /\ AppendedBy(q) # <<>>

ExpectedFull(L, F) == [i \in 1..(L \div F) |-> Bytes((i - 1) * F, F)]

ExpectedLast(L, F) ==
    IF L % F = 0 THEN <<>> ELSE <<Bytes(L - (L % F), L % F)>>

\* C5: after the chunks read so far, of L bytes in all, write() has returned
\* exactly floor(L/F) frames of F bytes each, the first L - L mod F bytes in
\* order, whatever the chunk lengths were; flush() then returns one frame of
\* the last L mod F bytes, or nothing when L mod F = 0.
C5_FramesOfLength ==
    \A r \in Relays :
        Relaying(r) =>
            LET F == FrameSize(r)
                L == hist[r].received
            IN /\ hist[r].written = ExpectedFull(L, F)
               /\ \A i \in 1..Len(hist[r].written) : Len(hist[r].written[i]) = F
               /\ hist[r].flush = 1 => hist[r].flushOut = ExpectedLast(L, F)

C5_Witness ==
    \E r \in Relays :
        /\ Consumed(r)
        /\ FrameSize(r) = 4
        /\ hist[r].chunks = 3
        /\ hist[r].received = 6
        /\ Len(hist[r].written) = 1
        /\ Len(hist[r].flushOut) = 1

\* C6: a chunk whose processing fails is logged and skipped and the relay
\* carries on with the next chunk: no relay ends because a chunk failed.
C6_FailingChunkSkipped ==
    \A r \in Relays :
        hist[r].failed > 0 =>
            /\ InSeq("Error processing audio chunk", log[r])
            /\ ~(pc[r] = "done" /\ hist[r].exit = "chunk_error")

\* the handler ran for r with a session and found the parameters unusable
BadParams(r) ==
    /\ pc[r] = "done"
    /\ hist[r].exit \notin {"no_session", "never_ran"}
    /\ ~ParamsOk(reader[r].attributes)

\* C7 as stated: with a missing or non-numeric sample rate or channel count
\* no chunk is read, nothing is appended, flushed or committed, and the
\* caller is told of the failure: the task ends with an error.
C7_FailFastReported ==
    \A r \in Relays :
        BadParams(r) =>
            /\ hist[r].chunks = 0 /\ AppendedBy(r) = <<>>
            /\ hist[r].flush = 0 /\ hist[r].commit = 0
            /\ outcome[r] = "raised"

\* C7 amended: with a missing or non-numeric sample rate or channel count
\* no chunk is read, nothing is appended, flushed or committed, nothing is
\* retried, and the failure is reported through one error log entry only:
\* the handler returns normally, so the caller's task ends without error.
C7_FailFastLogged ==
    \A r \in Relays :
        BadParams(r) =>
            /\ hist[r].chunks = 0 /\ hist[r].received = 0
            /\ AppendedBy(r) = <<>>
            /\ hist[r].flush = 0 /\ hist[r].commit = 0
            /\ audio_stream[r] = NoStream
            /\ log[r] = <<"Missing or invalid audio stream parameters">>
            /\ outcome[r] = "returned"
            /\ hist[r].exit = "bad_params"

C7_Witness ==
    \E r \in Relays :
        /\ BadParams(r)
        /\ reader[r].attributes.sampleRate = "10"
        /\ reader[r].attributes.channels = "x"
        /\ Len(reader[r].queue) = 2
        /\ reader[r].state = "eos"

\* relay r is between its first append and its finalization
Bound(r) == pc[r] = "reading" /\ AppendedBy(r) # <<>>

\* C8: no two relays are bound to the session's input audio buffer at the
\* same time, so the frames of two streams are never interleaved in it.
C8_OneRelayPerSink ==
    \A r, q \in Relays : (r # q /\ Bound(r)) => ~Bound(q)

C10_TriggerExactlyOnce ==
    \A r \in Relays :
        Consumed(r) =>
            /\ hist[r].response_create = 1
            /\ hist[r].commit >= 1

\* the state of spec 4.3's state machine relay r is in: Idle until the task
\* reads its stream, Streaming while it does, Draining once the loop was
\* left, Committed when flush and commit have both been done
RelayState(r) ==
    IF pc[r] \in {"idle", "scheduled"} THEN "Idle"
    ELSE IF pc[r] = "reading" THEN "Streaming"
    ELSE IF hist[r].exit \notin LoopExits THEN "Idle"
    ELSE IF hist[r].flush >= 1 /\ hist[r].commit >= 1 THEN "Committed"
    ELSE "Draining"

\* C11: a relay whose stream has terminated (end of stream, error or
\* cancellation) and whose handler has run to its end is in state Committed:
\* it was flushed and the commit signal was given.  The handler ends after
\* the flush without any commit, so it stays in Draining for good.
C11_ReachesCommitted ==
    \A r \in Relays :
        (pc[r] = "done" /\ hist[r].exit \in LoopExits) =>
            RelayState(r) = "Committed"

\* C12: once flush() has been called, a further flush() of the same reframer
\* returns no frame, whatever chunks were written before the first one.
C12_SecondFlushEmpty ==
    \A r \in Relays :
        hist[r].flush >= 1 => FlushFrames(audio_stream[r]) = <<>>

C12_Witness ==
    \E r \in Relays :
        /\ hist[r].flush = 1
        /\ hist[r].chunks >= 2
        /\ hist[r].written # <<>>
        /\ hist[r].flushOut # <<>>
        /\ FlushFrames(audio_stream[r]) = <<>>

\* C13: the step that reads a chunk from the stream does nothing else: it
\* neither reframes (the reframer is unchanged) nor appends to the input
\* audio buffer.  The loop body of lines 39-41 does both before the next read.
C13_ReadOnlyEnqueues ==
    [][\A r \in Relays :
          hist'[r].chunks > hist[r].chunks =>
              /\ audio_stream'[r] = audio_stream[r]
              /\ Buffer' = Buffer]_vars

\* C14: a cancellation is observed only while the task waits for the next
\* chunk.  Whenever the task waits, every frame write() has returned so far
\* is in the buffer, so no chunk is ever left partly appended; and after a
\* cancellation the buffer holds exactly those frames followed by the flush
\* frame (nothing of the flush output is cut off by the cancellation; it is
\* missing only when the sink raised on it).
C14_CancelBetweenChunks ==
    \A r \in Relays :
        /\ pc[r] = "reading" => AppendedBy(r) = hist[r].written
        /\ (Consumed(r) /\ hist[r].exit = "cancel") =>
               AppendedBy(r) = hist[r].written \o
                   (IF outcome[r] = "raised" THEN <<>> ELSE hist[r].flushOut)

C14_Witness ==
    \E r \in Relays :
        /\ Consumed(r) /\ hist[r].exit = "cancel" /\ outcome[r] = "cancelled"
        /\ Len(hist[r].written) >= 2
        /\ Len(hist[r].flushOut) = 1
        /\ Len(AppendedBy(r)) = Len(hist[r].written) + 1
        /\ reader[r].queue # <<>>

\* the segments scheduled for the remote participant, in order
RemoteSegments == SelectSeq(transcriptions, LAMBDA t : t.who = "remote")

\* C15: among the segments the three speech handlers schedule, a final
\* segment of id X comes after a non-final "..." placeholder of id X, no id
\* has two final segments, a placeholder comes only after the final segment
\* of every earlier placeholder, and the one placeholder still open, if any,
\* is last_transcript_id.
C15_OnePlaceholderOpen ==
    LET T == RemoteSegments
        Closed(i, n) == \E k \in (i + 1)..n : T[k].final /\ T[k].id = T[i].id
    IN /\ \A j \in 1..Len(T) :
              T[j].final =>
                  /\ \E i \in 1..(j - 1) :
                         ~T[i].final /\ T[i].id = T[j].id /\ T[i].text = "..."
                  /\ \A k \in 1..Len(T) : (T[k].final /\ T[k].id = T[j].id) => k = j
       /\ \A j \in 1..Len(T) :
              ~T[j].final => \A i \in 1..(j - 1) : ~T[i].final => Closed(i, j - 1)
       /\ \A i \in 1..Len(T) :
              ~T[i].final => (Closed(i, Len(T)) <=> last_transcript_id # T[i].id)

C15_Witness ==
    LET T == RemoteSegments
    IN /\ Len(T) = 5
       /\ ~T[1].final /\ T[2].final /\ T[2].text = "" /\ ~T[3].final
       /\ T[4].final /\ T[4].text = "Transcription failed"
       /\ ~T[5].final /\ last_transcript_id = T[5].id
       /\ ~remote_present

\* the calls C16 expects of one attribute change
CallsPerChange(e) ==
    <<"session_update">>
        \o (IF e.changed.instructions = Missing
            THEN <<>> ELSE <<"item.create:instructions_changed">>)
        \o <<"response.create">>

\* C16 as stated: after the two calls of start-up, the calls on the session
\* are, for each attribute change in turn, one session_update, the
\* "instructions have changed" message iff instructions changed, and one
\* response.create.
C16_UpdateThenResponse ==
    sessions # <<>> =>
        session_calls = <<"item.create:begin", "response.create">>
            \o Flatten([i \in 1..Len(events) |-> CallsPerChange(events[i])])

\* C16 amended: the same for each attribute change whose merged attributes
\* hold no temperature or a temperature that float() parses; a change whose
\* merged temperature does not parse raises in parse_session_config and
\* causes no call on the session at all.
C16_UpdateWhenParsed ==
    sessions # <<>> =>
        session_calls = <<"item.create:begin", "response.create">>
            \o Flatten([i \in 1..Len(events) |->
                          IF events[i].merged.temperature \in {Missing, "0.5"}
                          THEN CallsPerChange(events[i]) ELSE <<>>])

C16_Witness ==
    /\ Len(events) = 3
    /\ events[1].changed.instructions # Missing
    /\ events[1].merged.temperature = Missing
    /\ events[2].changed = [instructions |-> Missing, temperature |-> "0.5"]
    /\ events[3].merged.temperature = "hot"
    /\ Len(session_calls) = 7

\* C17's condition on a room name: no sandbox id is set, or the name is
\* "sbx-", then the part of the id after its last dash (the whole id when it
\* has no dash), then anything
ShouldAccept(room) ==
    \/ sandbox = None
    \/ LET id == sandbox[1]
       IN \E k \in 1..(Len(id) + 1) :
              LET seg == SubSeq(id, k, Len(id))
              IN /\ \A j \in 1..Len(seg) : seg[j] # "-"
                 /\ k = 1 \/ id[k - 1] = "-"
                 /\ Len(room) >= 4 + Len(seg)
                 /\ SubSeq(room, 1, 4 + Len(seg)) = <<"s", "b", "x", "-">> \o seg

\* C17: every job request got exactly one call, accept or reject, and it is
\* accept exactly when no sandbox id is set or the room name starts with
\* "sbx-" followed by the last dash-separated segment of the sandbox id.
C17_ResolvedOnce ==
    \A i \in 1..Len(job_requests) :
        LET q == job_requests[i]
        IN /\ Len(q.calls) = 1
           /\ q.calls[1] \in {"accept", "reject"}
           /\ q.calls[1] = "accept" <=> ShouldAccept(q.room)

C17_Witness ==
    /\ sandbox = <<<<"a", "-", "b">>>>
    /\ Len(job_requests) = 3
    /\ job_requests[1] = [room |-> <<"s", "b", "x", "-", "b", "z">>, calls |-> <<"accept">>]
    /\ job_requests[2] = [room |-> <<"s", "b", "x", "-", "a">>, calls |-> <<"reject">>]
    /\ job_requests[3] = [room |-> <<"s", "b", "x", "-">>, calls |-> <<"reject">>]
====
